---- MODULE Spec2Model ----
(***************************************************************************)
(* Model of secondbrainv1.py: split a video into clips with ffmpeg, run    *)
(* one Gemini request per clip on a ThreadPoolExecutor, collect the        *)
(* outcomes with as_completed and print a summary.                         *)
(*                                                                         *)
(* A clip is identified by the ordinal ffmpeg put into its file name       *)
(* (<base>_part_%03d.mp4); a Python dict is a TLA+ function whose domain   *)
(* is the set of its keys.                                                 *)
(***************************************************************************)
EXTENDS Integers, Sequences, FiniteSets, TLC

(* Bounds of the model. *)
MaxClips == 3
MaxWorkers == 2
MaxElapsed == 1
VideoLen == 5
MaxCalls == 3
MaxSegments == 1001

VARIABLES
    pc,                 \* position of the main thread
    error,              \* exception that ended the main thread, "None" if none
    srcExists,          \* os.path.exists(input_video)
    dir,                \* ordinals of the files in output_dir that match the clip pattern
    ffmpegRuns,         \* number of times the ffmpeg subprocess was started
    ffmpegExit,         \* exit status of ffmpeg: "none" before it ran, "zero", "nonzero"
    partialWrites,      \* segment files written by an ffmpeg run that exited non-zero
    clips,              \* module-level clips, the list split_video_into_clips returned
    max_workers,        \* the max_workers argument of process_clips_in_parallel
    nsub,               \* number of futures submitted so far
    queue,              \* work queue of the executor (future ids, FIFO)
    worker,             \* worker[w]: future the pool thread w is running, 0 if idle
    future,             \* future[i]: state of the i-th submitted future
    raised,             \* raised[i]: exception raised inside unit i's try block
    calls,              \* calls[i]: number of generate_content calls made for clips[i]
    yielded,            \* futures as_completed has already yielded
    results,            \* the results list of process_clips_in_parallel
    successful_results, \* module-level successful_results
    failed_results,     \* module-level failed_results
    summary,            \* what the results summary printed: counts, total and average
    history             \* one record per completed split_video_into_clips call

vars == << pc, error, srcExists, dir, ffmpegRuns, ffmpegExit, partialWrites, clips,
           max_workers, nsub, queue, worker, future, raised, calls, yielded, results,
           successful_results, failed_results, summary, history >>

-----------------------------------------------------------------------------
(* File names and their order *)

\* Decimal digits of n, most significant first.
RECURSIVE Digits(_)
Digits(n) == IF n < 10 THEN << n >> ELSE Append(Digits(n \div 10), n % 10)

\* printf's %03d: at least three digits, padded on the left with zeros.
Pad3(n) ==
    LET d == Digits(n)
    IN  IF Len(d) >= 3 THEN d ELSE [i \in 1..(3 - Len(d)) |-> 0] \o d

\* Character codes of the part of a clip's path that differs between clips:
\* the %03d digits ('0' is 48) and the '.' (46) that starts ".mp4".
ClipName(n) == [i \in 1..Len(Pad3(n)) |-> 48 + Pad3(n)[i]] \o << 46 >>

\* Python's str comparison a < b: code point by code point, a prefix first.
RECURSIVE StrLess(_, _)
StrLess(a, b) ==
    IF a = << >> THEN b # << >>
    ELSE IF b = << >> THEN FALSE
    ELSE IF Head(a) # Head(b) THEN Head(a) < Head(b)
    ELSE StrLess(Tail(a), Tail(b))

\* list.sort() of the paths of the clips in S.
RECURSIVE SortedClips(_)
SortedClips(S) ==
    IF S = {} THEN << >>
    ELSE LET m == CHOOSE x \in S : \A y \in S \ {x} : StrLess(ClipName(x), ClipName(y))
         IN  << m >> \o SortedClips(S \ {m})

\* The clip files found by the os.listdir loop, sorted.
ListClips(d) == SortedClips(d)

-----------------------------------------------------------------------------
(* Exceptions and outcomes *)

ReadError == [type |-> "OSError", args |-> "cannot read clip"]
ApiError  == [type |-> "APIError", args |-> "inference failed"]
NoError   == [type |-> "None", args |-> ""]

\* str(e)
Str(e) == e.args

\* response.text of the service's answer to the request carrying clip c.
ResponseText(c) == << "analysis", c >>

\* The dict returned after a successful call.
SuccessOutcome(c, t) ==
    [clip_path |-> c, response_text |-> ResponseText(c), processing_time |-> t,
     success |-> TRUE]

\* The dict returned by the unit's except branch.
FailureOutcome(c, e, t) ==
    [clip_path |-> c, error |-> Str(e), processing_time |-> t, success |-> FALSE]

\* Mutant of HandlerOutcome: the error text is left out of the dict.
HandlerOutcomeNoError(c, e) == [clip_path |-> c, success |-> FALSE]

\* The dict appended by the scheduler's except branch.
HandlerOutcome(c, e) ==
    [clip_path |-> c, error |-> Str(e), success |-> FALSE]

Pending      == [state |-> "PENDING"]
Running(at)  == [state |-> "RUNNING", at |-> at]
Returned(r)  == [state |-> "FINISHED", result |-> r]
Raised(e)    == [state |-> "FINISHED", exception |-> e]

\* The futures of future_to_clip once every clip is submitted.
Futures == 1..Len(clips)

\* Units that have entered process_single_clip_with_gemini and not yet left it.
InFlight == {i \in 1..nsub : future[i].state = "RUNNING"}

\* Largest number of pool threads the model has to represent.
MaxThreads == IF MaxClips > MaxWorkers THEN MaxClips ELSE MaxWorkers

-----------------------------------------------------------------------------
\* The state before split_video_into_clips is called. The input video may be
\* missing, the output directory may hold clip files of an earlier run, and
\* max_workers ranges over the values of the function's argument (the
\* module-level call passes 5).
Init ==
    /\ pc = "split"
    /\ error = "None"
    /\ srcExists \in BOOLEAN
    /\ dir \in SUBSET (0..(MaxClips - 1))
    /\ ffmpegRuns = 0
    /\ ffmpegExit = "none"
    /\ partialWrites = 0
    /\ clips = << >>
    /\ max_workers \in 1..MaxWorkers
    /\ nsub = 0
    /\ queue = << >>
    /\ worker = [w \in 1..MaxThreads |-> 0]
    /\ future = << >>
    /\ raised = << >>
    /\ calls = << >>
    /\ yielded = {}
    /\ results = << >>
    /\ successful_results = << >>
    /\ failed_results = << >>
    /\ summary = << >>
    /\ history = << >>

-----------------------------------------------------------------------------
(* split_video_into_clips *)

\* Mutant of InputMissing: the existence check is left out.
InputMissingIgnored == FALSE

\* not os.path.exists(input_video)
InputMissing == ~srcExists

\* The existence check fails: FileNotFoundError leaves the function and, being
\* uncaught at module level, ends the run.
SplitNotFound ==
    /\ pc = "split"
    /\ InputMissing
    /\ pc' = "halted"
    /\ error' = "FileNotFoundError"
    /\ UNCHANGED << srcExists, dir, ffmpegRuns, ffmpegExit, partialWrites, clips,
                    max_workers, nsub, queue, worker, future, raised, calls, yielded,
                    results, successful_results, failed_results, summary, history >>

\* The check passes, the output directory is made and ffmpeg is started.
SplitRunFfmpeg ==
    /\ pc = "split"
    /\ ~InputMissing
    /\ pc' = "ffmpeg"
    /\ ffmpegRuns' = ffmpegRuns + 1
    /\ UNCHANGED << ffmpegExit, partialWrites, error, srcExists, dir, clips,
                    max_workers, nsub, queue, worker, future, raised, calls, yielded,
                    results, successful_results, failed_results, summary, history >>

\* ffmpeg wrote (or overwrote) the segments 0..k-1 and exited 0: the matching
\* files of the directory are listed, sorted and returned; the module assigns
\* them to clips and enters process_clips_in_parallel.
FfmpegSucceeds(k) ==
    /\ pc = "ffmpeg"
    /\ dir' = dir \cup 0..(k - 1)
    /\ clips' = ListClips(dir')
    /\ raised' = [i \in 1..Len(clips') |-> NoError]
    /\ calls' = [i \in 1..Len(clips') |-> 0]
    /\ pc' = "submit"
    /\ ffmpegExit' = "zero"
    /\ UNCHANGED << error, srcExists, ffmpegRuns, partialWrites, max_workers, nsub,
                    queue, worker, future, yielded, results, successful_results,
                    failed_results, summary, history >>

\* Mutant of FfmpegFails: the except branch prints the error and returns the
\* files it finds instead of raising.
FfmpegFailsReturnsListing(k) ==
    /\ pc = "ffmpeg"
    /\ dir' = dir \cup 0..(k - 1)
    /\ clips' = ListClips(dir')
    /\ raised' = [i \in 1..Len(clips') |-> NoError]
    /\ calls' = [i \in 1..Len(clips') |-> 0]
    /\ pc' = "submit"
    /\ ffmpegExit' = "nonzero"
    /\ partialWrites' = k
    /\ UNCHANGED << error, srcExists, ffmpegRuns, max_workers, nsub, queue, worker,
                    future, yielded, results, successful_results, failed_results,
                    summary, history >>

\* ffmpeg wrote the segments 0..k-1 and exited non-zero: subprocess.run raises
\* CalledProcessError, the except branch prints and re-raises it.
FfmpegFails(k) ==
    /\ pc = "ffmpeg"
    /\ dir' = dir \cup 0..(k - 1)
    /\ pc' = "halted"
    /\ error' = "CalledProcessError"
    /\ ffmpegExit' = "nonzero"
    /\ partialWrites' = k
    /\ UNCHANGED << srcExists, ffmpegRuns, clips, max_workers, nsub, queue, worker,
                    future, raised, calls, yielded, results, successful_results,
                    failed_results, summary, history >>

-----------------------------------------------------------------------------
(* process_single_clip_with_gemini, run by a pool thread *)

\* Mutant of UnitExcept: the except branch re-raises.
UnitExceptReraises(c, e, t) == Raised(e)

\* What the future of the unit holds when the try block raised e: the except
\* branch returns the failure dict.
UnitExcept(c, e, t) == Returned(FailureOutcome(c, e, t))

\* Mutant of PoolThreads: one thread per submitted task.
PoolThreadsPerTask == 1..MaxThreads

\* Threads the executor may have: ThreadPoolExecutor(max_workers=max_workers).
PoolThreads == 1..max_workers

\* An idle pool thread takes the oldest work item and enters the unit.
WorkerTake(w) ==
    /\ w \in PoolThreads
    /\ worker[w] = 0
    /\ queue # << >>
    /\ worker' = [worker EXCEPT ![w] = Head(queue)]
    /\ queue' = Tail(queue)
    /\ future' = [future EXCEPT ![Head(queue)] = Running("read")]
    /\ UNCHANGED << pc, error, srcExists, dir, ffmpegRuns, ffmpegExit, partialWrites,
                    clips, max_workers, nsub, raised, calls, yielded, results,
                    successful_results, failed_results, summary, history >>

\* The clip's bytes are read and the generate_content request is issued.
UnitReadOk(w) ==
    /\ worker[w] # 0
    /\ future[worker[w]] = Running("read")
    /\ future' = [future EXCEPT ![worker[w]] = Running("call")]
    /\ calls' = [calls EXCEPT ![worker[w]] = @ + 1]
    /\ UNCHANGED << pc, error, srcExists, dir, ffmpegRuns, ffmpegExit, partialWrites,
                    clips, max_workers, nsub, queue, worker, raised, yielded, results,
                    successful_results, failed_results, summary, history >>

\* open() or read() raises after t seconds.
UnitReadRaises(w, t) ==
    /\ worker[w] # 0
    /\ future[worker[w]] = Running("read")
    /\ raised' = [raised EXCEPT ![worker[w]] = ReadError]
    /\ future' = [future EXCEPT ![worker[w]] = UnitExcept(clips[worker[w]], ReadError, t)]
    /\ worker' = [worker EXCEPT ![w] = 0]
    /\ UNCHANGED << pc, error, srcExists, dir, ffmpegRuns, ffmpegExit, partialWrites,
                    clips, max_workers, nsub, queue, calls, yielded, results,
                    successful_results, failed_results, summary, history >>

\* Mutant of UnitCallReturns: the pool thread appends the unit's dict to
\* results itself.
UnitCallReturnsAppends(w, t) ==
    /\ worker[w] # 0
    /\ future[worker[w]] = Running("call")
    /\ future' = [future EXCEPT ![worker[w]] = Returned(SuccessOutcome(clips[worker[w]], t))]
    /\ worker' = [worker EXCEPT ![w] = 0]
    /\ results' = Append(results, SuccessOutcome(clips[worker[w]], t))
    /\ UNCHANGED << pc, error, srcExists, dir, ffmpegRuns, ffmpegExit, partialWrites,
                    clips, max_workers, nsub, queue, raised, calls, yielded,
                    successful_results, failed_results, summary, history >>

\* generate_content returns; the unit has taken t seconds.
UnitCallReturns(w, t) ==
    /\ worker[w] # 0
    /\ future[worker[w]] = Running("call")
    /\ future' = [future EXCEPT ![worker[w]] = Returned(SuccessOutcome(clips[worker[w]], t))]
    /\ worker' = [worker EXCEPT ![w] = 0]
    /\ UNCHANGED << pc, error, srcExists, dir, ffmpegRuns, ffmpegExit, partialWrites,
                    clips, max_workers, nsub, queue, raised, calls, yielded, results,
                    successful_results, failed_results, summary, history >>

\* Mutant of UnitCallRaises: a failed call is tried once more.
UnitCallRaisesRetries(w, t) ==
    /\ worker[w] # 0
    /\ future[worker[w]] = Running("call")
    /\ IF calls[worker[w]] < 2
       THEN /\ future' = [future EXCEPT ![worker[w]] = Running("read")]
            /\ UNCHANGED << raised, worker >>
       ELSE /\ raised' = [raised EXCEPT ![worker[w]] = ApiError]
            /\ future' = [future EXCEPT ![worker[w]] =
                              UnitExcept(clips[worker[w]], ApiError, t)]
            /\ worker' = [worker EXCEPT ![w] = 0]
    /\ UNCHANGED << pc, error, srcExists, dir, ffmpegRuns, ffmpegExit, partialWrites,
                    clips, max_workers, nsub, queue, calls, yielded, results,
                    successful_results, failed_results, summary, history >>

\* generate_content raises after t seconds.
UnitCallRaises(w, t) ==
    /\ worker[w] # 0
    /\ future[worker[w]] = Running("call")
    /\ raised' = [raised EXCEPT ![worker[w]] = ApiError]
    /\ future' = [future EXCEPT ![worker[w]] = UnitExcept(clips[worker[w]], ApiError, t)]
    /\ worker' = [worker EXCEPT ![w] = 0]
    /\ UNCHANGED << pc, error, srcExists, dir, ffmpegRuns, ffmpegExit, partialWrites,
                    clips, max_workers, nsub, queue, calls, yielded, results,
                    successful_results, failed_results, summary, history >>

\* No fault has been injected yet: no exception has left a unit and no print
\* has failed. The fault environment injects one fault per run.
NoFaultYet ==
    /\ \A i \in 1..nsub : "exception" \notin DOMAIN future[i]
    /\ \A k \in 1..Len(results) : "processing_time" \in DOMAIN results[k]

\* Fault: the try block raised and the except branch, which nothing guards,
\* raises in turn (str(e) failing, no memory for the dict): the exception leaves
\* the unit and is stored in its future.
EscapeError == [type |-> "RuntimeError", args |-> "raised in except branch"]

UnitEscapes(w) ==
    /\ NoFaultYet
    /\ worker[w] # 0
    /\ future[worker[w]].state = "RUNNING"
    /\ raised' = [raised EXCEPT ![worker[w]] =
                      IF future[worker[w]].at = "read" THEN ReadError ELSE ApiError]
    /\ future' = [future EXCEPT ![worker[w]] = Raised(EscapeError)]
    /\ worker' = [worker EXCEPT ![w] = 0]
    /\ UNCHANGED << pc, error, srcExists, dir, ffmpegRuns, ffmpegExit, partialWrites,
                    clips, max_workers, nsub, queue, calls, yielded, results,
                    successful_results, failed_results, summary, history >>

-----------------------------------------------------------------------------
(* process_clips_in_parallel *)

\* executor.submit for the next clip of the dict comprehension.
Submit ==
    /\ pc = "submit"
    /\ nsub < Len(clips)
    /\ nsub' = nsub + 1
    /\ future' = Append(future, Pending)
    /\ queue' = Append(queue, nsub + 1)
    /\ UNCHANGED << pc, error, srcExists, dir, ffmpegRuns, ffmpegExit, partialWrites,
                    clips, max_workers, worker, raised, calls, yielded, results,
                    successful_results, failed_results, summary, history >>

\* Every clip is submitted: the as_completed loop starts.
StartCollect ==
    /\ pc = "submit"
    /\ nsub = Len(clips)
    /\ pc' = "collect"
    /\ UNCHANGED << error, srcExists, dir, ffmpegRuns, ffmpegExit, partialWrites,
                    clips, max_workers, nsub, queue, worker, future, raised, calls,
                    yielded, results, successful_results, failed_results, summary,
                    history >>

\* Mutant of Collect: a failed outcome is reported but not appended.
CollectSkipsFailures(i) ==
    /\ pc = "collect"
    /\ i \in Futures \ yielded
    /\ future[i].state = "FINISHED"
    /\ yielded' = yielded \cup {i}
    /\ results' = IF "result" \in DOMAIN future[i] /\ future[i].result.success
                  THEN Append(results, future[i].result)
                  ELSE results
    /\ UNCHANGED << pc, error, srcExists, dir, ffmpegRuns, ffmpegExit, partialWrites,
                    clips, max_workers, nsub, queue, worker, future, raised, calls,
                    successful_results, failed_results, summary, history >>

\* Mutant of Collect: the loop is left at the first failed outcome.
CollectStopsOnFailure(i) ==
    /\ pc = "collect"
    /\ i \in Futures \ yielded
    /\ future[i].state = "FINISHED"
    /\ "result" \in DOMAIN future[i]
    /\ yielded' = IF future[i].result.success THEN yielded \cup {i} ELSE Futures
    /\ results' = Append(results, future[i].result)
    /\ UNCHANGED << pc, error, srcExists, dir, ffmpegRuns, ffmpegExit, partialWrites,
                    clips, max_workers, nsub, queue, worker, future, raised, calls,
                    successful_results, failed_results, summary, history >>

\* Mutant of Collect: the loop has no except branch, an exception raised by
\* future.result() leaves the loop and ends the run.
CollectNoHandler(i) ==
    /\ pc = "collect"
    /\ i \in Futures \ yielded
    /\ future[i].state = "FINISHED"
    /\ yielded' = yielded \cup {i}
    /\ IF "exception" \in DOMAIN future[i]
       THEN /\ pc' = "halted"
            /\ error' = future[i].exception.type
            /\ results' = results
       ELSE /\ results' = Append(results, future[i].result)
            /\ UNCHANGED << pc, error >>
    /\ UNCHANGED << srcExists, dir, ffmpegRuns, ffmpegExit, partialWrites,
                    clips, max_workers, nsub, queue, worker, future, raised, calls,
                    successful_results, failed_results, summary, history >>

\* One iteration of the loop body for the finished future i that as_completed
\* yields: future.result() either returns the unit's dict, which is appended,
\* or raises, and the except branch appends its own failure dict.
Collect(i) ==
    /\ pc = "collect"
    /\ i \in Futures \ yielded
    /\ future[i].state = "FINISHED"
    /\ yielded' = yielded \cup {i}
    /\ results' = Append(results,
                         IF "exception" \in DOMAIN future[i]
                         THEN HandlerOutcome(clips[i], future[i].exception)
                         ELSE future[i].result)
    /\ UNCHANGED << pc, error, srcExists, dir, ffmpegRuns, ffmpegExit, partialWrites,
                    clips, max_workers, nsub, queue, worker, future, raised, calls,
                    successful_results, failed_results, summary, history >>

\* Fault: future.result() returned and the dict was appended, then the print
\* of the same try block raises; the except branch appends a second dict.
PrintError == [type |-> "OSError", args |-> "cannot write to stdout"]

CollectReportRaises(i) ==
    /\ NoFaultYet
    /\ pc = "collect"
    /\ i \in Futures \ yielded
    /\ future[i].state = "FINISHED"
    /\ "result" \in DOMAIN future[i]
    /\ yielded' = yielded \cup {i}
    /\ results' = results \o << future[i].result, HandlerOutcome(clips[i], PrintError) >>
    /\ UNCHANGED << pc, error, srcExists, dir, ffmpegRuns, ffmpegExit, partialWrites,
                    clips, max_workers, nsub, queue, worker, future, raised, calls,
                    successful_results, failed_results, summary, history >>

\* Mutant of LoopDone: the loop waits for the first completed future only.
LoopDoneAtFirst == yielded # {} \/ Futures = {}

\* as_completed has yielded every future of future_to_clip.
LoopDone == yielded = Futures

\* The loop ends and the with block is left: shutdown(wait=True) returns once
\* the queue is drained and every pool thread has finished.
ExitPool ==
    /\ pc = "collect"
    /\ LoopDone
    /\ queue = << >>
    /\ \A w \in PoolThreads : worker[w] = 0
    /\ pc' = "stats"
    /\ UNCHANGED << error, srcExists, dir, ffmpegRuns, ffmpegExit, partialWrites,
                    clips, max_workers, nsub, queue, worker, future, raised, calls,
                    yielded, results, successful_results, failed_results, summary,
                    history >>

\* The timing lines after the pool: total_time/len(clips) divides by zero for
\* an empty list, which ends the run; otherwise results is returned.
Stats ==
    /\ pc = "stats"
    /\ IF Len(clips) = 0
       THEN pc' = "halted" /\ error' = "ZeroDivisionError"
       ELSE pc' = "report" /\ error' = error
    /\ UNCHANGED << srcExists, dir, ffmpegRuns, ffmpegExit, partialWrites, clips,
                    max_workers, nsub, queue, worker, future, raised, calls, yielded,
                    results, successful_results, failed_results, summary, history >>

-----------------------------------------------------------------------------
(* Results summary at module level *)

IsSuccess(r) == r.success
IsFailure(r) == ~r.success

\* sum(r['processing_time'] for r in rs)
RECURSIVE SumTimes(_)
SumTimes(rs) ==
    IF rs = << >> THEN 0 ELSE Head(rs).processing_time + SumTimes(Tail(rs))

\* Greatest common divisor of a >= 0 and b > 0.
RECURSIVE Gcd(_, _)
Gcd(a, b) == IF a = 0 THEN b ELSE Gcd(b % a, a)

\* The value of a / b for b # 0, as a fraction in lowest terms.
Quotient(a, b) == [num |-> a \div Gcd(a, b), den |-> b \div Gcd(a, b)]

\* Mutant of HasSuccesses: the totals are computed without the guard.
HasSuccessesUnguarded(rs) == TRUE

\* if successful_results:
HasSuccesses(rs) == rs # << >>

\* The two list comprehensions and the printing of the summary: the counts,
\* and under the guard the total and the average, whose division raises
\* ZeroDivisionError for a divisor of zero.
Report ==
    /\ pc = "report"
    /\ successful_results' = SelectSeq(results, IsSuccess)
    /\ failed_results' = SelectSeq(results, IsFailure)
    /\ LET counts == [successes |-> Len(successful_results'),
                      failures |-> Len(failed_results')]
           total == SumTimes(successful_results')
       IN  IF ~HasSuccesses(successful_results')
           THEN /\ summary' = counts
                /\ pc' = "done"
                /\ error' = error
           ELSE IF Len(successful_results') = 0
           THEN /\ summary' = [successes |-> counts.successes,
                               failures |-> counts.failures, total |-> total]
                /\ pc' = "halted"
                /\ error' = "ZeroDivisionError"
           ELSE /\ summary' = [successes |-> counts.successes,
                               failures |-> counts.failures, total |-> total,
                               average |-> Quotient(total, Len(successful_results'))]
                /\ pc' = "done"
                /\ error' = error
    /\ UNCHANGED << srcExists, dir, ffmpegRuns, ffmpegExit, partialWrites, clips,
                    max_workers, nsub, queue, worker, future, raised, calls, yielded,
                    results, history >>

-----------------------------------------------------------------------------
Elapsed == 1..MaxElapsed

Next ==
    \/ SplitNotFound
    \/ SplitRunFfmpeg
    \/ \E k \in 0..MaxClips : FfmpegSucceeds(k)
    \/ \E k \in 0..MaxClips : FfmpegFails(k)
    \/ Submit
    \/ StartCollect
    \/ \E w \in 1..MaxThreads : WorkerTake(w)
    \/ \E w \in 1..MaxThreads : UnitReadOk(w)
    \/ \E w \in 1..MaxThreads, t \in Elapsed : UnitReadRaises(w, t)
    \/ \E w \in 1..MaxThreads, t \in Elapsed : UnitCallReturns(w, t)
    \/ \E w \in 1..MaxThreads, t \in Elapsed : UnitCallRaises(w, t)
    \/ \E i \in 1..MaxClips : Collect(i)
    \/ ExitPool
    \/ Stats
    \/ Report

Spec == Init /\ [][Next]_vars

\* The program with the two faults above added to its environment.
NextFault ==
    \/ Next
    \/ \E w \in 1..MaxThreads : UnitEscapes(w)
    \/ \E i \in 1..MaxClips : CollectReportRaises(i)

SpecFault == Init /\ [][NextFault]_vars

-----------------------------------------------------------------------------
(* split_video_into_clips called repeatedly on one video and one directory *)

\* Number of segments ffmpeg's segment muxer cuts from the video, VideoLen time
\* units long, with -segment_time d: full segments and a shorter last one.
SegmentCount(d) == (VideoLen + d - 1) \div d

\* Mutant of SegmentsWritten: the segments are numbered after the files that
\* are already in the directory instead of from 0.
SegmentsWrittenAfterExisting(d) ==
    {Cardinality(dir) + n : n \in 0..(SegmentCount(d) - 1)}

\* Ordinals of the files ffmpeg writes, overwriting (-y), through the output
\* pattern <base>_part_%03d.mp4.
SegmentsWritten(d) == 0..(SegmentCount(d) - 1)

\* A caller's first call finds the video and a fresh output directory.
InitSplit == Init /\ srcExists /\ dir = {} /\ max_workers = 1

\* One whole successful call with segment_duration d: ffmpeg runs and exits 0,
\* the matching files of the directory are listed, sorted and returned. history
\* records the call: its argument, the files it wrote and the list it returned.
SplitCall(d) ==
    /\ pc = "split"
    /\ ~InputMissing
    /\ Len(history) < MaxCalls
    /\ ffmpegRuns' = ffmpegRuns + 1
    /\ ffmpegExit' = "zero"
    /\ dir' = dir \cup SegmentsWritten(d)
    /\ clips' = ListClips(dir')
    /\ history' = Append(history, [segment_duration |-> d,
                                   wrote |-> SegmentsWritten(d),
                                   returned |-> clips'])
    /\ UNCHANGED << pc, error, srcExists, partialWrites, max_workers, nsub, queue,
                    worker, future, raised, calls, yielded, results,
                    successful_results, failed_results, summary >>

NextSplit == \E d \in 1..VideoLen : SplitCall(d)

SpecSplit == InitSplit /\ [][NextSplit]_vars

-----------------------------------------------------------------------------
(* split_video_into_clips on videos of every number of segments *)

\* list.sort() of a sorted list of clips to which the clip n is added: n goes
\* behind the clips whose names compare less than its name.
InsertClip(sorted, n) ==
    LET before == Cardinality({i \in 1..Len(sorted) :
                                  StrLess(ClipName(sorted[i]), ClipName(n))})
    IN  SubSeq(sorted, 1, before) \o << n >> \o SubSeq(sorted, before + 1, Len(sorted))

\* ffmpeg is running on an existing video, in a fresh output directory.
InitNames ==
    /\ pc = "ffmpeg"
    /\ error = "None"
    /\ srcExists = TRUE
    /\ dir = {}
    /\ ffmpegRuns = 1
    /\ ffmpegExit = "none"
    /\ partialWrites = 0
    /\ clips = << >>
    /\ max_workers = 1
    /\ nsub = 0
    /\ queue = << >>
    /\ worker = [w \in 1..MaxThreads |-> 0]
    /\ future = << >>
    /\ raised = << >>
    /\ calls = << >>
    /\ yielded = {}
    /\ results = << >>
    /\ successful_results = << >>
    /\ failed_results = << >>
    /\ summary = << >>
    /\ history = << >>

\* ffmpeg writes its next segment file. clips is kept equal to the sorted
\* listing of the directory: the list the function returns if ffmpeg, having
\* cut the video into this many segments, exits 0.
FfmpegWritesSegment ==
    /\ pc = "ffmpeg"
    /\ Cardinality(dir) < MaxSegments
    /\ dir' = dir \cup {Cardinality(dir)}
    /\ clips' = InsertClip(clips, Cardinality(dir))
    /\ UNCHANGED << pc, error, srcExists, ffmpegRuns, ffmpegExit, partialWrites,
                    max_workers, nsub, queue, worker, future, raised, calls, yielded,
                    results, successful_results, failed_results, summary, history >>

NextNames == FfmpegWritesSegment

SpecNames == InitNames /\ [][NextNames]_vars

-----------------------------------------------------------------------------
(* Properties *)

\* The as_completed loop of process_clips_in_parallel has ended.
AfterLoop ==
    \/ pc \in {"stats", "report", "done"}
    \/ pc = "halted" /\ error = "ZeroDivisionError"

\* Positions of results holding an outcome of the i-th clip.
OutcomesOf(i) == {k \in 1..Len(results) : results[k].clip_path = clips[i]}

\* C1: once the collection loop has ended, and so when process_clips_in_parallel
\* returns results, results holds exactly one outcome per input clip: as many
\* outcomes as clips, none missing, none twice; for every limit, interleaving and
\* pattern of read and inference failures.
C1_OneOutcomePerSegment ==
    AfterLoop =>
        /\ Len(results) = Len(clips)
        /\ \A i \in 1..Len(clips) : Cardinality(OutcomesOf(i)) = 1

\* C1 witness: three clips under a smaller limit returned, with a failure and a
\* success among them, collected in another order than they were submitted.
C1_Witness ==
    /\ pc = "report"
    /\ Len(clips) = MaxClips
    /\ max_workers < Len(clips)
    /\ \E k \in 1..Len(results) : results[k].success
    /\ \E k \in 1..Len(results) : ~results[k].success
    /\ \E k \in 1..Len(results) : results[k].clip_path # clips[k]

\* C2: in the final report the successful outcomes are listed in ascending
\* segment ordinal, whatever the completion order was.
C2_SuccessesInOrdinalOrder ==
    pc = "done" =>
        \A a, b \in 1..Len(successful_results) :
            a < b => successful_results[a].clip_path < successful_results[b].clip_path

\* C3: at every moment at most max_workers units are inside
\* process_single_clip_with_gemini, and a pool thread leaves the unit it runs
\* only when that unit has finished.
C3_ConcurrencyBound ==
    /\ [](Cardinality(InFlight) <= max_workers)
    /\ [][\A w \in 1..MaxThreads :
              (worker[w] # 0 /\ worker'[w] # worker[w]) =>
                  (worker'[w] = 0 /\ future'[worker[w]].state = "FINISHED")]_vars

\* C3 witness: the limit is reached while clips still wait in the queue, after
\* a thread has already finished one unit and taken the next.
C3_Witness ==
    /\ Cardinality(InFlight) = max_workers
    /\ queue # << >>
    /\ \E i \in 1..nsub : future[i].state = "FINISHED"

\* C4: after the loop, every clip whose read and inference call did not fail has
\* a successful outcome carrying the text the service returned for it, and every
\* clip whose read or call failed has a failed outcome with that error's text;
\* no failure costs a sibling its outcome.
C4_FailureIsolation ==
    AfterLoop =>
        \A i \in 1..Len(clips) :
            /\ OutcomesOf(i) # {}
            /\ \A k \in OutcomesOf(i) :
                   IF raised[i] = NoError
                   THEN /\ results[k].success
                        /\ results[k].response_text = ResponseText(clips[i])
                   ELSE /\ ~results[k].success
                        /\ results[k].error = Str(raised[i])

\* C4 witness: a failed outcome was collected before the successful outcome of
\* a sibling, and a read failure and an inference failure both occurred.
C4_Witness ==
    /\ pc = "report"
    /\ \E a, b \in 1..Len(results) : a < b /\ ~results[a].success /\ results[b].success
    /\ \E i, j \in 1..Len(clips) : raised[i] = ReadError /\ raised[j] = ApiError

\* C5: every outcome in results has the result text iff success is true and the
\* error text iff success is false, whether the unit built it on success, the
\* unit built it on failure, or the scheduler's except branch built it.
C5_ExactlyOneText ==
    \A k \in 1..Len(results) :
        /\ ("response_text" \in DOMAIN results[k]) <=> results[k].success
        /\ ("error" \in DOMAIN results[k]) <=> ~results[k].success

\* C5 witness: the returned results hold an outcome of each of the three kinds.
C5_Witness ==
    /\ pc = "report"
    /\ \E k \in 1..Len(results) : results[k].success
    /\ \E k \in 1..Len(results) :
           ~results[k].success /\ "processing_time" \in DOMAIN results[k]
    /\ \E k \in 1..Len(results) :
           ~results[k].success /\ "processing_time" \notin DOMAIN results[k]

\* C6: when the read or the inference call of a unit raised, the unit returned
\* (its future holds a result, not an exception) a dict with success false, the
\* error's text and the path of its own clip.
C6_UnitNeverPropagates ==
    \A i \in 1..nsub :
        raised[i] # NoError =>
            /\ future[i].state = "FINISHED"
            /\ "result" \in DOMAIN future[i]
            /\ ~future[i].result.success
            /\ future[i].result.error = Str(raised[i])
            /\ future[i].result.clip_path = clips[i]

\* C6 witness: one unit's read raised and another unit's inference call raised.
C6_Witness ==
    \E i, j \in 1..nsub :
        /\ raised[i] = ReadError /\ future[i].state = "FINISHED"
        /\ raised[j] = ApiError /\ future[j].state = "FINISHED"

\* C7: once segmentation has returned, whatever list it returned, no error ends
\* the run before the report: the run halts only on the two segmentation errors.
C7_NoPostSegmentationHalt ==
    pc = "halted" => error \in {"FileNotFoundError", "CalledProcessError"}

\* C8: when the scheduler's loop has ended and the timing and report stages run,
\* every clip has been submitted, every future has finished and been yielded,
\* its outcome is in results, the queue is empty and no pool thread is running.
C8_FanInBeforeAggregation ==
    AfterLoop =>
        /\ nsub = Len(clips)
        /\ yielded = Futures
        /\ \A i \in Futures : future[i].state = "FINISHED" /\ OutcomesOf(i) # {}
        /\ queue = << >>
        /\ \A w \in 1..MaxThreads : worker[w] = 0

\* C8 witness: the pool was left with more clips than threads.
C8_Witness ==
    /\ pc = "stats"
    /\ Len(clips) > max_workers
    /\ max_workers > 1

\* C9: when the input video does not exist, ffmpeg is never started, nothing is
\* submitted, no inference call is made, and the run ends with FileNotFoundError.
C9_MissingInputHalts ==
    ~srcExists =>
        /\ ffmpegRuns = 0
        /\ ffmpegExit = "none"
        /\ nsub = 0
        /\ clips = << >>
        /\ \A i \in DOMAIN calls : calls[i] = 0
        /\ pc \in {"split", "halted"}
        /\ pc = "halted" => error = "FileNotFoundError"

\* C9 witness: the run has ended on the missing input.
C9_Witness == ~srcExists /\ pc = "halted" /\ error = "FileNotFoundError"

\* C10: when ffmpeg exits non-zero the run is halted by CalledProcessError with
\* no clip returned, nothing submitted and no inference call made, also when
\* ffmpeg wrote segment files before failing.
C10_FfmpegFailureReturnsNothing ==
    ffmpegExit = "nonzero" =>
        /\ pc = "halted"
        /\ error = "CalledProcessError"
        /\ clips = << >>
        /\ nsub = 0
        /\ \A i \in DOMAIN calls : calls[i] = 0

\* C10 witness: ffmpeg failed after writing segment files.
C10_Witness == ffmpegExit = "nonzero" /\ partialWrites > 0 /\ dir # {}

\* C11: when ffmpeg exits 0 and no clip file matches, split_video_into_clips
\* returns the empty list and the caller treats it as a failure of the run: the
\* fan-out scheduler's pool is never run on an empty batch.
C11_EmptyBatchNeverScheduled ==
    pc \in {"collect", "stats", "report", "done"} => clips # << >>

\* Futures whose unit returned a success dict.
Succeeded == {i \in 1..nsub : "result" \in DOMAIN future[i] /\ future[i].result.success}

\* Sum of the elapsed times the units of the futures in S returned.
RECURSIVE TimeOf(_)
TimeOf(S) ==
    IF S = {} THEN 0
    ELSE LET i == CHOOSE x \in S : TRUE
         IN  future[i].result.processing_time + TimeOf(S \ {i})

\* C12: the summary counts the successes and failures, its total is the sum of
\* the elapsed times of the successful units only and its average is that total
\* over the number of successes; with zero successes neither is computed; and
\* the summary, once started, always completes without an arithmetic fault.
C12_AggregationOverSuccesses ==
    /\ summary # << >> => pc = "done" /\ error = "None"
    /\ pc = "done" =>
           /\ summary.successes = Cardinality(Succeeded)
           /\ summary.failures = Len(clips) - Cardinality(Succeeded)
           /\ IF Succeeded = {}
              THEN "total" \notin DOMAIN summary /\ "average" \notin DOMAIN summary
              ELSE /\ summary.total = TimeOf(Succeeded)
                   /\ summary.average.den > 0
                   /\ summary.average.num * Cardinality(Succeeded)
                          = TimeOf(Succeeded) * summary.average.den

\* C12 witness: the summary of a run in which every one of several clips failed.
C12_Witness ==
    /\ pc = "done"
    /\ successful_results = << >>
    /\ Len(failed_results) >= 2
    /\ "average" \notin DOMAIN summary

\* Positions of failed_results holding an outcome of the i-th clip.
FailuresOf(i) ==
    {k \in 1..Len(failed_results) : failed_results[k].clip_path = clips[i]}

\* C13: within a run generate_content is called at most once for each clip,
\* whether the call succeeds or fails, and in the report a clip whose read or
\* call failed appears exactly once in the failure list.
C13_NoRetries ==
    /\ \A i \in DOMAIN calls : calls[i] <= 1
    /\ pc = "done" =>
           \A i \in 1..Len(clips) :
               Cardinality(FailuresOf(i)) = IF raised[i] = NoError THEN 0 ELSE 1

\* C13 witness: the report of a run in which one clip's call failed after its
\* single request and another clip's read failed before any request.
C13_Witness ==
    /\ pc = "done"
    /\ \E i, j \in 1..Len(clips) :
           /\ raised[i] = ApiError /\ calls[i] = 1
           /\ raised[j] = ReadError /\ calls[j] = 0
    /\ Len(failed_results) >= 2

\* C14: a call of split_video_into_clips that follows a call with the same
\* video, directory and segment duration returns the same clips, in number and
\* in names, as that call did.
C14_SplitIdempotent ==
    \A a \in 1..(Len(history) - 1) :
        history[a + 1].segment_duration = history[a].segment_duration =>
            history[a + 1].returned = history[a].returned

\* C14 witness: two calls in a row with the same duration, cutting several clips.
C14_Witness ==
    /\ Len(history) >= 2
    /\ history[2].segment_duration = history[1].segment_duration
    /\ Len(history[1].returned) >= 2

\* C15: after any sequence of successful calls on one video and directory, the
\* list a call returned holds exactly the segments that call wrote; files left
\* by an earlier call are not returned.
C15_ReturnsOnlyWrittenSegments ==
    \A a \in 1..Len(history) :
        {history[a].returned[k] : k \in 1..Len(history[a].returned)} = history[a].wrote

\* C16: for every number of segments ffmpeg can produce, the sorted list of
\* clip names is in ascending ordinal: its i-th element (from 0) is segment i.
C16_SortedIsOrdinalOrder ==
    \A i \in 1..Len(clips) : clips[i] = i - 1

\* Futures that hold an exception: units whose execution raised an error the
\* unit did not catch.
Escaped == {i \in 1..nsub : "exception" \in DOMAIN future[i]}

\* C17: when a unit's execution raised an error the unit did not catch, the
\* collection loop appends for it exactly one outcome, the failed dict with that
\* unit's clip path and the error's text; the run is not ended by it; and when
\* the loop has ended every other unit has its own returned dict in results.
C17_EscapedErrorBecomesFailure ==
    Escaped # {} =>
        /\ pc # "halted"
        /\ error = "None"
        /\ \A i \in Escaped \cap yielded :
               /\ Cardinality(OutcomesOf(i)) = 1
               /\ \A k \in OutcomesOf(i) :
                      results[k] = [clip_path |-> clips[i],
                                    error |-> Str(future[i].exception),
                                    success |-> FALSE]
        /\ \A i \in Escaped \ yielded : OutcomesOf(i) = {}
        /\ AfterLoop =>
               /\ Escaped \subseteq yielded
               /\ \A j \in (1..Len(clips)) \ Escaped :
                      \E k \in OutcomesOf(j) : results[k] = future[j].result

\* C17 witness: the run reached the report although an error left a unit, and
\* the outcomes of siblings were collected both before and after that unit's.
C17_Witness ==
    /\ pc = "done"
    /\ \E i \in Escaped : \E k \in OutcomesOf(i) :
           /\ 1 < k
           /\ k < Len(results)
           /\ results[k - 1].clip_path # clips[i]
           /\ results[k + 1].clip_path # clips[i]

\* C18: results changes only in a step of the coordinating thread inside the
\* collection loop, a step in which no pool thread moves and no future changes,
\* and that step only appends; so under every interleaving results is, in
\* order, the dicts the yielded futures returned, none lost and none altered.
C18_SingleWriter ==
    /\ [][results' # results =>
              /\ pc = "collect"
              /\ worker' = worker
              /\ future' = future
              /\ Len(results') > Len(results)
              /\ SubSeq(results', 1, Len(results)) = results]_vars
    /\ [](/\ Len(results) = Cardinality(yielded)
          /\ \A k \in 1..Len(results) :
                 \E i \in yielded : results[k] = future[i].result)

\* C18 witness: an outcome has been appended while as many units as the limit
\* allows, more than one, are running in pool threads.
C18_Witness ==
    /\ results # << >>
    /\ max_workers > 1
    /\ Cardinality(InFlight) = max_workers

\* C19: each completed unit causes at most one append to results, also when the
\* reporting of an appended outcome raises inside the try block.
C19_AtMostOneAppend ==
    /\ Len(results) <= Cardinality(yielded)
    /\ \A i \in 1..Len(clips) : Cardinality(OutcomesOf(i)) <= 1

====
